---- MODULE Spec2Model ----
(***************************************************************************)
(* Model of the cached calculator engine (pyHRV/Cache.py together with the *)
(* cache kept by PyHRV/DataSeries.py) and of the segment generators        *)
(* (pyPhysio/segmentation/SegmentsGenerators.py).                          *)
(*                                                                         *)
(* SpecCache runs the cache engine, SpecSeg one segment generator,         *)
(* SpecSignal the signal classes of pyPhysio/Signal.py and SpecCid one     *)
(* DataSeries cache used by the calculators of both calculator modules;    *)
(* each leaves the other components' variables alone.                      *)
(***************************************************************************)
EXTENDS Integers, Sequences, FiniteSets, TLC

VARIABLES
    cache,      \* DataSeries._cache of each DataSeries: cid -> stored value
    nextObj,    \* number of result objects created so far (object identity)
    got,        \* per DataSeries: the calculators asked with use_cache since their entry was last dropped
    last        \* the last call made on the engine and its outcome

cacheVars == <<cache, nextObj, got, last>>

VARIABLES
    self,       \* the segment generator: its class, _params, _signal and cursor attributes
    out,        \* the last call made on the generator and its outcome
    stopped,    \* next_segment has raised StopIteration since the last init_segmentation
    run,        \* the segments yielded since the last init_segmentation, up to the first StopIteration
    firstRun,   \* the segments of the first run that reached StopIteration
    calls       \* next_segment calls since the last init_segmentation

segVars == <<self, out, stopped, run, firstRun, calls>>

VARIABLES
    subject,    \* the signal under operation: an EvenlySignal, an UnevenlySignal or NoSig
    res         \* the last constructor or method call on a signal and its outcome

sigVars == <<subject, res>>

VARIABLES
    shared,     \* the _cache of one DataSeries handed to calculators of both modules
    asked       \* the last call made on that DataSeries and its outcome

cidVars == <<shared, asked>>

VARIABLES
    frame,      \* PSDAr2Calc._calculate_data under way: its locals and where it stands
    printed     \* the diagnostics it has printed

arVars == <<frame, printed>>

VARIABLES
    racing,     \* the _cache of one DataSeries that several callers work on at once
    callers,    \* each caller's call of get: its calculator, where it stands, its locals
    computed    \* per calculator: the times its _calculate_data has run

raceVars == <<racing, callers, computed>>

vars == <<cacheVars, segVars, sigVars, cidVars, arVars, raceVars>>

\* what the actions of one component leave alone
notCache == <<segVars, sigVars, cidVars, arVars, raceVars>>
notSeg == <<cacheVars, sigVars, cidVars, arVars, raceVars>>
notSig == <<cacheVars, segVars, cidVars, arVars, raceVars>>
notCid == <<cacheVars, segVars, sigVars, arVars, raceVars>>
notAr == <<cacheVars, segVars, sigVars, cidVars, raceVars>>
notRace == <<cacheVars, segVars, sigVars, cidVars, arVars>>

(***************************************************************************)
(* Bounds                                                                  *)
(***************************************************************************)
\* result objects that may be created in one behaviour
MaxObj == 3
\* samples of a signal, and the latest instant of a sample or an event
MaxLen == 3
MaxTime == 3
\* the largest step, width and start of a LengthSegments / TimeSegments
MaxStep == 2
MaxWidth == 2
MaxStart == 1
\* the longest list of an ExistingSegments, the most events of a FromEventsSegments
MaxWins == 2
MaxEvents == 3
\* next_segment calls followed between two init_segmentation
MaxCalls == 6
\* the highest sampling frequency of a signal (Hz), and the ticks of one second
\* in which instants are handed to the signal classes
MaxFreq == 2
TimeRes == 2
\* the highest Sett.ar_2_max_order
MaxOrder == 4
\* the callers at work on one DataSeries at once
MaxCallers == 2

(***************************************************************************)
(* The cached calculator engine                                            *)
(***************************************************************************)
\* the DataSeries objects, and one plain array that is not a DataSeries
DataSeriesObjs == {"S1", "S2"}
Data == DataSeriesObjs \cup {"raw"}
\* the numbers each holds: the two DataSeries hold equal numbers
series == [d \in Data |-> IF d \in DataSeriesObjs THEN "rr_a" ELSE "rr_b"]

\* the abstract calculator, an ordinary calculator of Cache.py (the others differ
\* from it in the numbers they compute only) and the one that delegates to it
Base == "CacheableDataCalc"
Calcs == {Base, "Histogram", "HistogramMax"}
Concrete == Calcs \ {Base}
Params == {"None", "p1"}

None == [by |-> "None", of |-> "None", with |-> "None", obj |-> 0]

isinstance(data) == data \in DataSeriesObjs

cid(cls) == cls \o "_cn"

\* DataSeries.cache_check
cache_check(m, data, calculator) == cid(calculator) \in DOMAIN m.cache[data]

\* DataSeries.cache_get_data
cache_get_data(m, data, calculator) ==
    IF cache_check(m, data, calculator) THEN m.cache[data][cid(calculator)] ELSE None

\* Store, were the cache keyed by the numbers held and not by the object holding them
Store_by_contents(m, data, calculator, value) ==
    [m EXCEPT !.cache =
        [d \in DataSeriesObjs |->
            IF series[d] = series[data]
            THEN [k \in DOMAIN m.cache[d] \cup {cid(calculator)} |->
                    IF k = cid(calculator) THEN value ELSE m.cache[d][k]]
            ELSE m.cache[d]]]

\* the assignment self._cache[calculator.cid()] = value of cache_pre_calc_data
Store(m, data, calculator, value) ==
    [m EXCEPT !.cache[data] =
        [k \in DOMAIN m.cache[data] \cup {cid(calculator)} |->
            IF k = cid(calculator) THEN value ELSE m.cache[data][k]]]

\* a call returns the machine state it leaves, the exception it raised and its value
Return(m, v) == [m |-> m, exc |-> "none", val |-> v]
Raise(m, e) == [m |-> m, exc |-> e, val |-> None]

\* a new result object computed by cls from the numbers src with parameter p
Fresh(m, cls, src, p) ==
    Return([m EXCEPT !.nextObj = @ + 1],
           [by |-> cls, of |-> src, with |-> p, obj |-> m.nextObj + 1])

\* ran lists the runs of _calculate_data made during the call
CountRun(m, cls, data) == [m EXCEPT !.ran = Append(@, <<data, cls>>)]

RECURSIVE get(_, _, _, _, _)
RECURSIVE _calculate_data(_, _, _, _)
RECURSIVE cache_pre_calc_data(_, _, _, _)

\* _calculate_data, were HistogramMax to refresh the histogram it reads
_calculate_data_refreshing(m, cls, data, params) ==
    LET m1 == CountRun(m, cls, data) IN
    IF cls = Base
    THEN Raise(m1, "NotImplementedError")
    ELSE IF cls = "HistogramMax"
    THEN LET h == IF isinstance(data)
                  THEN cache_pre_calc_data(m1, data, "Histogram", params)
                  ELSE get(m1, "Histogram", data, params, TRUE) IN
         IF h.exc # "none" THEN h
         ELSE Fresh(h.m, cls, h.val.of, h.val.with)
    ELSE Fresh(m1, cls, series[data], params)

\* CacheableDataCalc._calculate_data and its overrides
_calculate_data(m, cls, data, params) ==
    LET m1 == CountRun(m, cls, data) IN
    IF cls = Base
    THEN Raise(m1, "NotImplementedError")
    ELSE IF cls = "HistogramMax"
    THEN LET h == get(m1, "Histogram", data, params, TRUE) IN
         IF h.exc # "none" THEN h
         ELSE Fresh(h.m, cls, h.val.of, h.val.with)
    ELSE Fresh(m1, cls, series[data], params)

\* cache_pre_calc_data, were it to store whatever the computation left, failed or not
cache_pre_calc_data_storing_failure(m, data, calculator, params) ==
    LET r == get(m, calculator, data, params, FALSE)
        m2 == Store(r.m, data, calculator, r.val) IN
    Return(m2, m2.cache[data][cid(calculator)])

\* DataSeries.cache_pre_calc_data
cache_pre_calc_data(m, data, calculator, params) ==
    LET r == get(m, calculator, data, params, FALSE) IN
    IF r.exc # "none" THEN r
    ELSE LET m2 == Store(r.m, data, calculator, r.val) IN
         Return(m2, m2.cache[data][cid(calculator)])

\* get, were it to skip the cache_check
get_without_check(m, cls, data, params, use_cache) ==
    IF use_cache /\ isinstance(data)
    THEN LET m1 == [m EXCEPT !.got[data] = @ \cup {cls}]
             r == cache_pre_calc_data(m1, data, cls, params)
         IN  IF r.exc # "none" THEN r
             ELSE Return(r.m, cache_get_data(r.m, data, cls))
    ELSE _calculate_data(m, cls, data, params)

\* get, were an entry to count only for the params it was computed with
get_keyed_by_params(m, cls, data, params, use_cache) ==
    IF use_cache /\ isinstance(data)
    THEN LET m1 == [m EXCEPT !.got[data] = @ \cup {cls}]
             r == IF ~cache_check(m1, data, cls)
                     \/ cache_get_data(m1, data, cls).with # params
                  THEN cache_pre_calc_data(m1, data, cls, params)
                  ELSE Return(m1, None)
         IN  IF r.exc # "none" THEN r
             ELSE Return(r.m, cache_get_data(r.m, data, cls))
    ELSE _calculate_data(m, cls, data, params)

\* CacheableDataCalc.get
get(m, cls, data, params, use_cache) ==
    IF use_cache /\ isinstance(data)
    THEN LET m1 == [m EXCEPT !.got[data] = @ \cup {cls}]
             r == IF ~cache_check(m1, data, cls)
                  THEN cache_pre_calc_data(m1, data, cls, params)
                  ELSE Return(m1, None)
         IN  IF r.exc # "none" THEN r
             ELSE Return(r.m, cache_get_data(r.m, data, cls))
    ELSE _calculate_data(m, cls, data, params)

\* the program state a call works on
Machine == [cache |-> cache, nextObj |-> nextObj, got |-> got, ran |-> <<>>]

Call(op, data, cls, params, use_cache, r) ==
    [op |-> op, data |-> data, cls |-> cls, params |-> params,
     use_cache |-> use_cache, exc |-> r.exc, ret |-> r.val, ran |-> r.m.ran,
     hit |-> IF isinstance(data) THEN cid(cls) \in DOMAIN cache[data] ELSE FALSE,
     again |-> IF isinstance(data) THEN cls \in got[data] ELSE FALSE]

NoCall == [op |-> "new", data |-> "raw", cls |-> Base, params |-> "None",
           use_cache |-> FALSE, exc |-> "none", ret |-> None, ran |-> <<>>,
           hit |-> FALSE, again |-> FALSE]

CacheStart ==
    /\ cache = [d \in DataSeriesObjs |-> <<>>]
    /\ nextObj = 0
    /\ got = [d \in DataSeriesObjs |-> {}]
    /\ last = NoCall

\* a caller's cls.get(data, params, use_cache)
Get(data, cls, params, use_cache) ==
    LET r == get(Machine, cls, data, params, use_cache) IN
    /\ r.m.nextObj <= MaxObj
    /\ cache' = r.m.cache
    /\ nextObj' = r.m.nextObj
    /\ got' = r.m.got
    /\ last' = Call("get", data, cls, params, use_cache, r)
    /\ UNCHANGED notCache

\* DataSeries.cache_clear
CacheClear(data) ==
    /\ cache' = [cache EXCEPT ![data] = <<>>]
    /\ got' = [got EXCEPT ![data] = {}]
    /\ last' = [NoCall EXCEPT !.op = "cache_clear"]
    /\ UNCHANGED <<nextObj, notCache>>

\* DataSeries.cache_invalidate
CacheInvalidate(data, calculator) ==
    /\ cache' = IF cache_check(Machine, data, calculator)
                THEN [cache EXCEPT ![data] =
                        [k \in DOMAIN cache[data] \ {cid(calculator)} |-> cache[data][k]]]
                ELSE cache
    /\ got' = [got EXCEPT ![data] = @ \ {calculator}]
    /\ last' = [NoCall EXCEPT !.op = "cache_invalidate"]
    /\ UNCHANGED <<nextObj, notCache>>

(***************************************************************************)
(* Segments and signals                                                    *)
(***************************************************************************)
Min(a, b) == IF a <= b THEN a ELSE b

RECURSIVE SortedSeq(_)
SortedSeq(S) ==
    IF S = {} THEN <<>>
    ELSE LET lo == CHOOSE x \in S : \A y \in S : x <= y
         IN  <<lo>> \o SortedSeq(S \ {lo})

\* strictly increasing instants, at most n of them
Instants(n) == {SortedSeq(S) : S \in {T \in SUBSET (0..MaxTime) : Cardinality(T) <= n}}

\* a signal is known to a generator by its length and the instants of its samples
Signals == {[bound |-> TRUE, times |-> ts] : ts \in Instants(MaxLen)}
NoSignal == [bound |-> FALSE, times |-> <<>>]

\* the end-to-end scenario: 256 samples at 4 Hz, cut with step = width = 64
EndToEnd == [L |-> 256, step |-> 64]
EndToEndSignal == [bound |-> TRUE, times |-> [k \in 1..EndToEnd.L |-> k - 1]]

len(signal) == Len(signal.times)
get_times(signal, i) == signal.times[i + 1]

Labels == <<"a", "b", "c", "d", "e">>

\* Segment(begin, end, label, signal)
Segment(begin, end, label, signal) ==
    [isSegment |-> TRUE, begin |-> begin, end |-> end, label |-> label, signal |-> signal]

\* no segment returned
NoSeg == [isSegment |-> FALSE, begin |-> 0, end |-> 0, label |-> "", signal |-> "None"]

\* Segment.is_empty (BaseSegmentation is not among the sources; this follows the
\* design document: a segment is empty when begin = end, the end taken within the
\* bound signal's length): nothing of [begin, end) lies within the signal
is_empty(seg, signal) == seg.begin >= Min(seg.end, len(signal))

(***************************************************************************)
(* The segment generators                                                  *)
(***************************************************************************)
\* a generator as its constructor leaves it, called with a signal or not
Generator(cls, params, signal) ==
    [cls |-> cls, params |-> params, signal |-> signal, started |-> FALSE,
     step |-> "None", width |-> "None", i |-> "None",
     wins |-> "None", ind |-> "None",
     s |-> "None", t |-> "None", ibn |-> "None", events |-> "None"]

\* the params of LengthSegments and TimeSegments: step, and width and start or not
\* (steps that move the cursor backwards are not drawn here)
StepParams ==
    {[step |-> st] : st \in 0..MaxStep}
    \cup {[step |-> st, width |-> w] : st \in 0..MaxStep, w \in 0..MaxWidth}
    \cup {[step |-> st, start |-> b] : st \in 0..MaxStep, b \in 0..MaxStart}
    \cup {[step |-> st, width |-> w, start |-> b] :
            st \in 0..MaxStep, w \in 0..MaxWidth, b \in 0..MaxStart}

\* the lists given to ExistingSegments: Segment objects as a generator yields them
\* (begin < end), cut from some other signal
ListedSegments == {be \in (0..MaxLen) \X (0..MaxLen) : be[1] < be[2]}
SegmentLists ==
    UNION {[1..n -> ListedSegments] : n \in 0..MaxWins}
AsSegments(l) ==
    [k \in 1..Len(l) |-> Segment(l[k][1], l[k][2], Labels[k], "other")]

\* the events given to FromEventsSegments: instants, and a label each
EventSignals == {[times |-> ts, values |-> [k \in 1..Len(ts) |-> Labels[k]]] :
                    ts \in Instants(MaxEvents)}

Outcome(op, result, seg) == [op |-> op, result |-> result, seg |-> seg, afterStop |-> stopped]

\* the history a call to init_segmentation starts afresh
Restart(result) ==
    /\ out' = Outcome("init_segmentation", result, NoSeg)
    /\ stopped' = FALSE
    /\ run' = <<>>
    /\ calls' = 0
    /\ firstRun' = [firstRun EXCEPT !.rerun = firstRun.done]
    /\ UNCHANGED notSeg

\* the history after next_segment returned seg
Yield(seg) ==
    /\ out' = Outcome("next_segment", "segment", seg)
    /\ run' = IF stopped THEN run ELSE Append(run, seg)
    /\ calls' = calls + 1
    /\ UNCHANGED <<stopped, firstRun>>
    /\ UNCHANGED notSeg

\* the history after next_segment raised exc
Fail(exc) ==
    /\ out' = Outcome("next_segment", exc, NoSeg)
    /\ stopped' = (stopped \/ exc = "StopIteration")
    /\ firstRun' = IF exc = "StopIteration" /\ ~stopped /\ ~firstRun.done
                   THEN [firstRun EXCEPT !.done = TRUE, !.segs = run]
                   ELSE firstRun
    /\ calls' = calls + 1
    /\ UNCHANGED run
    /\ UNCHANGED notSeg

CanAdvance == self.started /\ calls < MaxCalls

\* init_segmentation, were it to leave a cursor already set where it is
LengthSegments_init_keeping_cursor ==
    /\ self.cls = "LengthSegments"
    /\ IF ~self.signal.bound
       THEN /\ Restart("ValueError")
            /\ UNCHANGED self
       ELSE /\ self' = [self EXCEPT
                !.step = self.params.step,
                !.width = IF "width" \notin DOMAIN self.params \/ self.params.width = 0
                          THEN self.params.step ELSE self.params.width,
                !.i = IF self.started THEN self.i
                      ELSE IF "start" \in DOMAIN self.params THEN self.params.start ELSE 0,
                !.started = TRUE]
            /\ Restart("ok")

\* LengthSegments.init_segmentation
LengthSegments_init_segmentation ==
    /\ self.cls = "LengthSegments"
    /\ IF ~self.signal.bound
       THEN /\ Restart("ValueError")
            /\ UNCHANGED self
       ELSE /\ self' = [self EXCEPT
                !.step = self.params.step,
                !.width = IF "width" \notin DOMAIN self.params \/ self.params.width = 0
                          THEN self.params.step ELSE self.params.width,
                !.i = IF "start" \in DOMAIN self.params THEN self.params.start ELSE 0,
                !.started = TRUE]
            /\ Restart("ok")

\* next_segment, were it to advance the cursor before reading it
LengthSegments_next_advancing_first(g) ==
    LET o == g.i + g.step
        s == Segment(o, o + g.width, "", "self._signal")
    IN  [g |-> [g EXCEPT !.i = g.i + g.step],
         exc |-> IF is_empty(s, g.signal) THEN "StopIteration" ELSE "none",
         seg |-> s]

\* next_segment, were it to cut the segment's end to the signal's length
LengthSegments_next_clipping(g) ==
    LET o == g.i
        s == Segment(o, Min(o + g.width, len(g.signal)), "", "self._signal")
    IN  [g |-> [g EXCEPT !.i = g.i + g.step],
         exc |-> IF is_empty(s, g.signal) THEN "StopIteration" ELSE "none",
         seg |-> s]

\* LengthSegments.next_segment
LengthSegments_next(g) ==
    LET o == g.i
        s == Segment(o, o + g.width, "", "self._signal")
    IN  [g |-> [g EXCEPT !.i = g.i + g.step],
         exc |-> IF is_empty(s, g.signal) THEN "StopIteration" ELSE "none",
         seg |-> s]

LengthSegments_next_segment ==
    /\ self.cls = "LengthSegments"
    /\ CanAdvance
    /\ LET r == LengthSegments_next(self) IN
        /\ self' = r.g
        /\ IF r.exc = "none" THEN Yield(r.seg) ELSE Fail(r.exc)

\* TimeSegments.init_segmentation
TimeSegments_init_segmentation ==
    /\ self.cls = "TimeSegments"
    /\ self' = [self EXCEPT
            !.step = self.params.step,
            !.width = IF "width" \notin DOMAIN self.params \/ self.params.width = 0
                      THEN self.params.step ELSE self.params.width,
            !.i = IF "start" \in DOMAIN self.params THEN self.params.start ELSE 0,
            !.started = TRUE]
    /\ Restart("ok")

\* the scan, were it to stop at the first sample not before the bound
RECURSIVE ScanFrom_up_to_the_bound(_, _, _, _)
ScanFrom_up_to_the_bound(signal, i, b, d) ==
    IF i < len(signal) /\ get_times(signal, i) < get_times(signal, b) + d
    THEN ScanFrom_up_to_the_bound(signal, i + 1, b, d)
    ELSE i

\* while i < l and signal.get_times(i) <= signal.get_times(b) + d: i += 1
RECURSIVE ScanFrom(_, _, _, _)
ScanFrom(signal, i, b, d) ==
    IF i < len(signal) /\ get_times(signal, i) <= get_times(signal, b) + d
    THEN ScanFrom(signal, i + 1, b, d)
    ELSE i

\* TimeSegments.next_segment
TimeSegments_next(g) ==
    IF ~g.signal.bound
    THEN [g |-> g, exc |-> "StopIteration", seg |-> NoSeg]
    ELSE LET b == g.i
             i2 == ScanFrom(g.signal, g.i, b, g.step)
             e == ScanFrom(g.signal, b, b, g.width)
             s == Segment(b, e, "", "self._signal")
         IN  [g |-> [g EXCEPT !.i = i2],
              exc |-> IF is_empty(s, g.signal) THEN "StopIteration" ELSE "none",
              seg |-> s]

TimeSegments_next_segment ==
    /\ self.cls = "TimeSegments"
    /\ CanAdvance
    /\ LET r == TimeSegments_next(self) IN
        /\ self' = r.g
        /\ IF r.exc = "none" THEN Yield(r.seg) ELSE Fail(r.exc)

\* ExistingSegments.init_segmentation
ExistingSegments_init_segmentation ==
    /\ self.cls = "ExistingSegments"
    /\ self' = [self EXCEPT !.wins = self.params.segments, !.ind = 0, !.started = TRUE]
    /\ Restart("ok")

\* next_segment, were it to hand out the listed segments as they are
ExistingSegments_next_as_listed(g) ==
    IF g.ind < Len(g.wins)
    THEN LET w == g.wins[g.ind + 1] IN
         IF g.signal.bound /\ ~w.isSegment
         THEN [g |-> g, exc |-> "AssertionError", seg |-> NoSeg]
         ELSE IF g.signal.bound /\ is_empty(w, g.signal)
         THEN [g |-> [g EXCEPT !.ind = 0], exc |-> "StopIteration", seg |-> NoSeg]
         ELSE [g |-> [g EXCEPT !.ind = g.ind + 1], exc |-> "none", seg |-> w]
    ELSE [g |-> [g EXCEPT !.ind = 0], exc |-> "StopIteration", seg |-> NoSeg]

\* ExistingSegments.next_segment (the lists drawn hold Segment objects only, so
\* the isinstance assertion passes)
ExistingSegments_next(g) ==
    IF g.ind < Len(g.wins)
    THEN LET w == g.wins[g.ind + 1] IN
         IF g.signal.bound
         THEN IF ~w.isSegment
              THEN [g |-> g, exc |-> "AssertionError", seg |-> NoSeg]
              ELSE LET w2 == Segment(w.begin, w.end, w.label, "self._signal") IN
                   IF is_empty(w2, g.signal)
                   THEN [g |-> [g EXCEPT !.ind = 0], exc |-> "StopIteration", seg |-> NoSeg]
                   ELSE [g |-> [g EXCEPT !.ind = g.ind + 1], exc |-> "none", seg |-> w2]
         ELSE [g |-> [g EXCEPT !.ind = g.ind + 1], exc |-> "none", seg |-> w]
    ELSE [g |-> [g EXCEPT !.ind = 0], exc |-> "StopIteration", seg |-> NoSeg]

ExistingSegments_next_segment ==
    /\ self.cls = "ExistingSegments"
    /\ CanAdvance
    /\ LET r == ExistingSegments_next(self) IN
        /\ self' = r.g
        /\ IF r.exc = "none" THEN Yield(r.seg) ELSE Fail(r.exc)

\* FromEventsSegments.init_segmentation
FromEventsSegments_init(g) ==
    LET g1 == [g EXCEPT
                !.ibn = IF "include_baseline_name" \in DOMAIN g.params
                        THEN g.params.include_baseline_name ELSE "None",
                !.events = g.params.events,
                !.s = 0,
                !.i = 0]
    IN  IF Len(g.params.events.times) = 0
        THEN [g |-> g1, exc |-> "IndexError"]
        ELSE [g |-> [g1 EXCEPT !.t = g.params.events.times[1], !.started = TRUE],
              exc |-> "none"]

FromEventsSegments_init_segmentation ==
    /\ self.cls = "FromEventsSegments"
    /\ LET r == FromEventsSegments_init(self) IN
        /\ self' = r.g
        /\ Restart(IF r.exc = "none" THEN "ok" ELSE r.exc)

\* while i < l and signal.get_times(i) <= t: i += 1
RECURSIVE ScanTo(_, _, _)
ScanTo(signal, i, t) ==
    IF i < len(signal) /\ get_times(signal, i) <= t
    THEN ScanTo(signal, i + 1, t)
    ELSE i

\* FromEventsSegments.next_segment
FromEventsSegments_next(g) ==
    IF ~g.signal.bound
    THEN [g |-> g, exc |-> "StopIteration", seg |-> NoSeg]
    ELSE LET l == len(g.signal)
             n == Len(g.events.times)
         IN  IF g.i < l
             THEN IF g.s < n - 1
                  THEN LET o == g.i
                           t == g.events.times[g.s + 2]
                           i2 == ScanTo(g.signal, g.i, t)
                       IN  [g |-> [g EXCEPT !.t = t, !.i = i2, !.s = g.s + 1],
                            exc |-> "none",
                            seg |-> Segment(o, i2, g.events.values[g.s + 1], "self._signal")]
                  ELSE IF g.s < n
                  THEN [g |-> [g EXCEPT !.s = g.s + 1],
                        exc |-> "none",
                        seg |-> Segment(g.i, l, g.events.values[g.s + 1], "self._signal")]
                  ELSE [g |-> g, exc |-> "StopIteration", seg |-> NoSeg]
             ELSE [g |-> g, exc |-> "StopIteration", seg |-> NoSeg]

FromEventsSegments_next_segment ==
    /\ self.cls = "FromEventsSegments"
    /\ CanAdvance
    /\ LET r == FromEventsSegments_next(self) IN
        /\ self' = r.g
        /\ IF r.exc = "none" THEN Yield(r.seg) ELSE Fail(r.exc)

(***************************************************************************)
(* The signal classes (pyPhysio/Signal.py)                                 *)
(***************************************************************************)
\* Instants are rationals <<numerator, denominator>>, the denominator positive:
\* the instants handed in are whole ticks of 1/TimeRes second, sampling
\* frequencies are whole numbers of samples per second, and the quotients the
\* code takes of them are kept exact.
Rat(n, d) == <<n, d>>
Lt(a, b) == a[1] * b[2] < b[1] * a[2]
Le(a, b) == a[1] * b[2] <= b[1] * a[2]
Eq(a, b) == a[1] * b[2] = b[1] * a[2]
Plus(a, b) == <<a[1] * b[2] + b[1] * a[2], a[2] * b[2]>>
Minus(a, b) == <<a[1] * b[2] - b[1] * a[2], a[2] * b[2]>>
Times(a, k) == <<a[1] * k, a[2]>>

\* numpy.ceil, then int
ceil(a) == -((-a[1]) \div a[2])

\* float.is_integer
is_integer(a) == a[1] % a[2] = 0

\* numpy.round, then astype(int): to the nearest whole number, a half to the even one
round(a) ==
    LET q == a[1] \div a[2]
        rem == a[1] % a[2]
    IN  IF 2 * rem < a[2] THEN q
        ELSE IF 2 * rem > a[2] THEN q + 1
        ELSE IF q % 2 = 0 THEN q ELSE q + 1

\* numpy.diff(x) <= 0 nowhere
NonDecreasing(x) == \A i \in 1..(Len(x) - 1) : x[i] <= x[i + 1]
StrictlyIncreasing(x) == \A i \in 1..(Len(x) - 1) : x[i] < x[i + 1]
StrictlyIncreasingInstants(x) == \A i \in 1..(Len(x) - 1) : Lt(x[i], x[i + 1])

\* a[i:j] of a sequence, 0 <= i and 0 <= j
Slice(a, i, j) ==
    LET hi == Min(j, Len(a)) IN
    IF i >= hi THEN <<>> ELSE [k \in 1..(hi - i) |-> a[i + k]]

\* a[::r], r > 0
EveryNth_dropping_tail(a, r) == [k \in 1..(Len(a) \div r) |-> a[(k - 1) * r + 1]]
EveryNth(a, r) == [k \in 1..((Len(a) + r - 1) \div r) |-> a[(k - 1) * r + 1]]

\* None where an instant is expected
NoTime == <<>>

\* no signal object
NoSig == [cls |-> "None", id |-> 0, values |-> <<>>, sampling_freq |-> 0,
          signal_nature |-> "", start_time |-> NoTime, x_indices |-> <<>>]

\* what a call gives: the exception it raises, or the object it returns
Made(obj) == [exc |-> "none", ret |-> obj]
Raised(exc) == [exc |-> exc, ret |-> NoSig]

\* Signal.__new__; id tells the objects apart
Signal_new(cls, id, values, sampling_freq, signal_nature, start_time) ==
    IF ~(sampling_freq > 0) THEN Raised("AssertionError")
    ELSE Made([cls |-> cls, id |-> id, values |-> values,
               sampling_freq |-> sampling_freq, signal_nature |-> signal_nature,
               start_time |-> start_time, x_indices |-> <<>>])

EvenlySignal(id, values, sampling_freq, signal_nature, start_time) ==
    Signal_new("EvenlySignal", id, values, sampling_freq, signal_nature, start_time)

\* the parameters UnevenlySignal.__new__ accepts, and their defaults
UnevenlyParams ==
    {"values", "sampling_freq", "signal_nature", "start_time", "x_values", "x_type"}
UnevenlyDefaults ==
    [sampling_freq |-> 1000, signal_nature |-> "", start_time |-> NoTime,
     x_values |-> <<>>, x_type |-> "None"]
Arg(kw, name) == IF name \in DOMAIN kw THEN kw[name] ELSE UnevenlyDefaults[name]

\* the sample indices of instants: round((instants - start_time) * sampling_freq)
IndicesOf(instants, start_time, sampling_freq) ==
    [k \in 1..Len(instants) |-> round(Times(Minus(instants[k], start_time), sampling_freq))]

\* UnevenlySignal.__new__ on the indices it is given
Unevenly_of_indices(id, values, sampling_freq, signal_nature, start_time, indices) ==
    IF ~StrictlyIncreasing(indices) THEN Raised("AssertionError")
    ELSE LET made == Signal_new("UnevenlySignal", id, values, sampling_freq,
                                signal_nature,
                                IF start_time = NoTime THEN Rat(0, 1) ELSE start_time)
         IN  IF made.exc # "none" THEN made
             ELSE Made([made.ret EXCEPT !.x_indices = indices])

\* UnevenlySignal.__new__ on the instants it is given
Unevenly_of_instants(id, values, sampling_freq, signal_nature, start_time, instants) ==
    IF ~StrictlyIncreasingInstants(instants) THEN Raised("AssertionError")
    ELSE IF Len(instants) = 0 THEN Raised("IndexError")
    ELSE IF start_time # NoTime /\ ~Le(start_time, instants[1])
    THEN Raised("AssertionError")
    ELSE LET t0 == IF start_time = NoTime THEN instants[1] ELSE start_time
             made == Signal_new("UnevenlySignal", id, values, sampling_freq,
                                signal_nature, t0)
         IN  IF made.exc # "none" THEN made
             ELSE Made([made.ret EXCEPT
                            !.x_indices = IndicesOf(instants, t0, sampling_freq)])

\* UnevenlySignal(**kw): the call, then __new__
UnevenlySignal(id, kw) ==
    IF ~(DOMAIN kw \subseteq UnevenlyParams) THEN Raised("TypeError")
    ELSE IF "x_values" \notin DOMAIN kw \/ "x_type" \notin DOMAIN kw
    THEN Raised("AssertionError")
    ELSE IF Len(kw.x_values) # Len(kw.values) THEN Raised("AssertionError")
    ELSE IF kw.x_type = "indices"
    THEN Unevenly_of_indices(id, kw.values, Arg(kw, "sampling_freq"),
                             Arg(kw, "signal_nature"), Arg(kw, "start_time"), kw.x_values)
    ELSE IF kw.x_type = "instants"
    THEN Unevenly_of_instants(id, kw.values, Arg(kw, "sampling_freq"),
                              Arg(kw, "signal_nature"), Arg(kw, "start_time"), kw.x_values)
    ELSE Raised("TypeError")

Lowest(S) == CHOOSE x \in S : \A y \in S : x <= y
Highest(S) == CHOOSE x \in S : \A y \in S : y <= x

\* EvenlySignal.get_times and UnevenlySignal.get_times, as sequences
Evenly_get_times(s) ==
    [k \in 1..Len(s.values) |-> Plus(Rat(k - 1, s.sampling_freq), s.start_time)]
Unevenly_get_times(s) ==
    [k \in 1..Len(s.x_indices) |-> Plus(Rat(s.x_indices[k], s.sampling_freq), s.start_time)]

\* Signal.get_end_time, of a signal that has samples
get_end_time(s) ==
    IF s.cls = "EvenlySignal" THEN Evenly_get_times(s)[Len(s.values)]
    ELSE Unevenly_get_times(s)[Len(s.x_indices)]

\* len(numpy.arange(x))
arange_len(x) == IF ceil(x) > 0 THEN ceil(x) ELSE 0

\* the positions, in samples of the input, where resample evaluates the interpolant
indexes_out_past_the_end(L, fs, fout) ==
    [k \in 1..arange_len(Rat((L + 1) * fout, fs)) |-> Rat(k * fs, fout)]
indexes_out(L, fs, fout) ==
    [k \in 1..arange_len(Rat(L * fout, fs)) |-> Rat((k - 1) * fs, fout)]

\* scipy.interpolate.interp1d(range(len(y)), y, kind='linear') at position p,
\* 0 <= p <= len(y) - 1
interp1d(y, p) ==
    LET i == p[1] \div p[2] IN
    IF is_integer(p) THEN Rat(y[i + 1], 1)
    ELSE Rat(y[i + 1] * p[2] + (p[1] - i * p[2]) * (y[i + 2] - y[i + 1]), p[2])

\* EvenlySignal.resample(fout), kind = 'linear'
resample(id, s, fout) ==
    LET fs == s.sampling_freq
        ratio == Rat(fs, fout)
        L == Len(s.values)
    IN  IF fout < fs /\ is_integer(ratio)
        THEN EvenlySignal(id, EveryNth(s.values, fs \div fout), fout,
                          s.signal_nature, s.start_time)
        ELSE IF L = 0 THEN Raised("IndexError")
        ELSE LET at == indexes_out(L, fs, fout)
                 self_l == Append(s.values, s.values[L])
             IN  IF \E k \in 1..Len(at) : Lt(Rat(L, 1), at[k]) \/ Lt(at[k], Rat(0, 1))
                 THEN Raised("ValueError")
                 ELSE EvenlySignal(id, [k \in 1..Len(at) |-> interp1d(self_l, at[k])],
                                   fout, s.signal_nature, s.start_time)

\* the arguments of segment_time and segment_idx: the stop may be left out (None)
Stop(a, name, default) == IF name \in DOMAIN a THEN a[name] ELSE default

\* EvenlySignal.segment_time(t_start, t_stop)
Evenly_segment_time_copying(id, s, a) ==
    LET signal_times == Evenly_get_times(s)
        L == Len(s.values)
    IN  IF L = 0 THEN Raised("IndexError")
        ELSE LET t_stop == Stop(a, "t_stop", signal_times[L]) IN
        IF Lt(get_end_time(s), a.t_start) \/ Lt(t_stop, s.start_time)
        THEN Made([s EXCEPT !.id = id])
        ELSE LET c == ceil(Times(Minus(a.t_start, s.start_time), s.sampling_freq))
                 idx_start == IF c < 0 THEN 0 ELSE c
                 idx_stop == ceil(Times(Minus(t_stop, s.start_time), s.sampling_freq))
             IN  EvenlySignal(id, Slice(s.values, idx_start, idx_stop), s.sampling_freq,
                              s.signal_nature, signal_times[idx_start + 1])
Evenly_segment_time(id, s, a) ==
    LET signal_times == Evenly_get_times(s)
        L == Len(s.values)
    IN  IF L = 0 THEN Raised("IndexError")
        ELSE LET t_stop == Stop(a, "t_stop", signal_times[L]) IN
        IF Lt(get_end_time(s), a.t_start) \/ Lt(t_stop, s.start_time) THEN Made(s)
        ELSE LET c == ceil(Times(Minus(a.t_start, s.start_time), s.sampling_freq))
                 idx_start == IF c < 0 THEN 0 ELSE c
                 idx_stop == ceil(Times(Minus(t_stop, s.start_time), s.sampling_freq))
             IN  EvenlySignal(id, Slice(s.values, idx_start, idx_stop), s.sampling_freq,
                              s.signal_nature, signal_times[idx_start + 1])

\* EvenlySignal.segment_idx(idx_start, idx_stop), 0 <= idx_start and 0 <= idx_stop
Evenly_segment_idx(id, s, a) ==
    LET L == Len(s.values)
        idx_stop == Stop(a, "idx_stop", L)
    IN  IF a.idx_start >= L THEN Raised("IndexError")
        ELSE EvenlySignal(id, Slice(s.values, a.idx_start, idx_stop), s.sampling_freq,
                          s.signal_nature, Evenly_get_times(s)[a.idx_start + 1])

\* UnevenlySignal.segment_time(t_start, t_stop)
Unevenly_segment_time(id, s, a) ==
    LET signal_times == Unevenly_get_times(s)
        L == Len(s.values)
    IN  IF L = 0 THEN Raised("IndexError")
        ELSE LET t_stop == Stop(a, "t_stop", signal_times[L])
                 from == {k \in 1..L : Le(a.t_start, signal_times[k])}
                 upto == {k \in 1..L : Le(signal_times[k], t_stop)}
             IN
        IF Lt(get_end_time(s), a.t_start) \/ Lt(t_stop, s.start_time) THEN Made(s)
        ELSE IF from = {} \/ upto = {} THEN Raised("IndexError")
        ELSE LET idx_start == Lowest(from) - 1
                 idx_stop == Highest(upto) - 1
             IN  UnevenlySignal(id,
                    [values |-> Slice(s.values, idx_start, idx_stop),
                     sampling_freq |-> s.sampling_freq,
                     signal_nature |-> s.signal_nature,
                     start_time |-> signal_times[idx_start + 1],
                     instants |-> Slice(signal_times, idx_start, idx_stop)])

\* UnevenlySignal.segment_idx(idx_start, idx_stop)
Unevenly_segment_idx(id, s, a) ==
    LET signal_indices == s.x_indices
        L == Len(s.values)
        idx_stop == Stop(a, "idx_stop", L)
        from == {k \in 1..L : signal_indices[k] >= a.idx_start}
        upto == {k \in 1..L : signal_indices[k] < idx_stop}
    IN  IF from = {} \/ upto = {} THEN Raised("IndexError")
        ELSE LET i_start == Lowest(from) - 1
                 i_stop == Highest(upto) - 1
                 portion_indices == Slice(signal_indices, i_start, i_stop + 1)
             IN  IF portion_indices = <<>> THEN Raised("IndexError")
                 ELSE UnevenlySignal(id,
                        [values |-> Slice(s.values, i_start, i_stop + 1),
                         sampling_freq |-> s.sampling_freq,
                         signal_nature |-> s.signal_nature,
                         start_time |-> Unevenly_get_times(s)[i_start + 1],
                         x_values |-> [k \in 1..Len(portion_indices) |->
                                          portion_indices[k] - portion_indices[1]],
                         x_type |-> "indices"])

(***************************************************************************)
(* One signal: its construction, then the calls made on it                 *)
(***************************************************************************)
SampleValues == {0, 1}
SampleSeqs == UNION {[1..n -> SampleValues] : n \in 0..MaxLen}

\* x_values as they are handed in: whole numbers, in any order; as instants they
\* count ticks
XSeqs == UNION {[1..n -> 0..MaxTime] : n \in 0..MaxLen}
Tick(t) == Rat(t, TimeRes)
Ticks(x) == [k \in 1..Len(x) |-> Tick(x[k])]

\* the sampling frequencies a constructor is called with, and the start times
ConstructFreqs == (-1)..MaxFreq
StartTimes == {Tick(t) : t \in 0..MaxStart}

\* UnevenlySignal(values, sampling_freq, "ECG", start_time, x_values, x_type), or
\* the same call with start_time left out (NoTime)
UnevenlyCall(v, f, t0, x, ty) ==
    LET kw == [values |-> v, sampling_freq |-> f, signal_nature |-> "ECG",
               x_values |-> IF ty = "indices" THEN x ELSE Ticks(x), x_type |-> ty]
    IN  IF t0 = NoTime THEN kw
        ELSE [k \in DOMAIN kw \cup {"start_time"} |->
                IF k = "start_time" THEN t0 ELSE kw[k]]

\* the arguments of segment_time and of segment_idx
TimeArgs ==
    {[t_start |-> Tick(b)] : b \in 0..(MaxTime + 1)}
    \cup {[t_start |-> Tick(b), t_stop |-> Tick(e)] :
            b \in 0..(MaxTime + 1), e \in 0..(MaxTime + 1)}
IdxArgs ==
    {[idx_start |-> b] : b \in 0..(MaxLen + 1)}
    \cup {[idx_start |-> b, idx_stop |-> e] : b \in 0..(MaxLen + 1), e \in 0..(MaxLen + 1)}

NoOp == [op |-> "none", args |-> <<>>, exc |-> "none", ret |-> NoSig]

SigStart ==
    /\ subject = NoSig
    /\ res = NoOp

\* nothing has been constructed yet
Fresh_signal == subject = NoSig /\ res = NoOp

\* the signal has been constructed and no method called on it yet; the methods
\* leave the signal as it is, so a second call would add nothing to the first
Constructed(cls) == subject.cls = cls /\ res.op = cls

\* a constructor call: the object it makes is the signal under operation
Construct(op, args, r) ==
    /\ subject' = r.ret
    /\ res' = [op |-> op, args |-> args, exc |-> r.exc, ret |-> r.ret]
    /\ UNCHANGED notSig

\* a method call on the signal under operation
Method(op, args, r) ==
    /\ res' = [op |-> op, args |-> args, exc |-> r.exc, ret |-> r.ret]
    /\ UNCHANGED subject
    /\ UNCHANGED notSig

NewEvenly ==
    /\ Fresh_signal
    /\ \E v \in SampleSeqs, f \in ConstructFreqs, t0 \in StartTimes :
        Construct("EvenlySignal",
                  [values |-> v, sampling_freq |-> f, signal_nature |-> "ECG",
                   start_time |-> t0],
                  EvenlySignal(1, v, f, "ECG", t0))

NewUnevenly ==
    /\ Fresh_signal
    /\ \E v \in SampleSeqs, f \in ConstructFreqs, t0 \in StartTimes \cup {NoTime},
       x \in XSeqs, ty \in {"indices", "instants"} :
        LET kw == UnevenlyCall(v, f, t0, x, ty) IN
        Construct("UnevenlySignal", kw, UnevenlySignal(1, kw))

Resample ==
    /\ Constructed("EvenlySignal")
    /\ \E fout \in 1..(MaxFreq + 1) :
            Method("resample", [fout |-> fout], resample(2, subject, fout))

EvenlySegmentTime ==
    /\ Constructed("EvenlySignal")
    /\ \E a \in TimeArgs : Method("segment_time", a, Evenly_segment_time(2, subject, a))

EvenlySegmentIdx ==
    /\ Constructed("EvenlySignal")
    /\ \E a \in IdxArgs : Method("segment_idx", a, Evenly_segment_idx(2, subject, a))

UnevenlySegmentTime ==
    /\ Constructed("UnevenlySignal")
    /\ \E a \in TimeArgs : Method("segment_time", a, Unevenly_segment_time(2, subject, a))

UnevenlySegmentIdx ==
    /\ Constructed("UnevenlySignal")
    /\ \E a \in IdxArgs : Method("segment_idx", a, Unevenly_segment_idx(2, subject, a))

(***************************************************************************)
(* One DataSeries cache and the calculators of both calculator modules     *)
(***************************************************************************)
\* the calculator classes of pyHRV/Cache.py and of PyHRV/DataSeries.py that the
\* cache is used with
CalcClasses ==
    {[module |-> "pyHRV.Cache", name |-> n] :
        n \in {"FFTCalc", "PSDWelch1Calc", "PSDWelchCalc"}}
    \cup {[module |-> "PyHRV.DataSeries", name |-> n] :
        n \in {"FFTCalc", "PSDWelchCalc", "RRDiff"}}

\* cls.cid(): cls.__name__ + "_cn"
class_cid(c) == cid(c.name)

\* what cls._calculate_data makes of a series: the estimator, whether the square
\* root of the powers is taken, where the bands come from, and the nfft handed
\* to scipy.signal.welch
Computation(c) ==
    CASE c.name = "FFTCalc" ->
            [of |-> "fft", sqrt |-> FALSE, bands |-> "linspace", nfft |-> "none"]
      [] c.name = "PSDWelch1Calc" ->
            [of |-> "welch", sqrt |-> TRUE, bands |-> "welch", nfft |-> "max(128, len)"]
      [] c.name = "PSDWelchCalc" /\ c.module = "pyHRV.Cache" ->
            [of |-> "welch", sqrt |-> FALSE, bands |-> "linspace", nfft |-> "max(128, len)"]
      [] c.name = "PSDWelchCalc" /\ c.module = "PyHRV.DataSeries" ->
            [of |-> "welch", sqrt |-> TRUE, bands |-> "welch", nfft |-> "default"]
      [] c.name = "RRDiff" ->
            [of |-> "diff", sqrt |-> FALSE, bands |-> "none", nfft |-> "none"]

\* the series is a DataSeries of PyHRV/DataSeries.py: the isinstance test of that
\* module's get holds, the one of pyHRV/Cache.py is against another class
is_DataSeries(c) == c.module = "PyHRV.DataSeries"

NoValue == [by |-> [module |-> "None", name |-> "None"],
            result |-> [of |-> "none", sqrt |-> FALSE, bands |-> "none", nfft |-> "none"]]

\* cls._calculate_data(series, params)
Calculated(c) == [by |-> c, result |-> Computation(c)]

\* DataSeries.cache_pre_calc_data(calculator, params) on the cache
pre_calc(c, _cache) ==
    [k \in DOMAIN _cache \cup {class_cid(c)} |->
        IF k = class_cid(c) THEN Calculated(c) ELSE _cache[k]]

CidStart ==
    /\ shared = <<>>
    /\ asked = [op |-> "new", cls |-> NoValue.by, ret |-> NoValue]

\* series.cache_pre_calc_data(c, params)
CidPreCalc(c) ==
    /\ shared' = pre_calc(c, shared)
    /\ asked' = [op |-> "cache_pre_calc_data", cls |-> c, ret |-> Calculated(c)]
    /\ UNCHANGED notCid

\* c.get(series, params, use_cache=True)
CidGet(c) ==
    /\ shared' = IF is_DataSeries(c) /\ class_cid(c) \notin DOMAIN shared
                 THEN pre_calc(c, shared) ELSE shared
    /\ asked' = [op |-> "get", cls |-> c,
                 ret |-> IF is_DataSeries(c) THEN shared'[class_cid(c)]
                         ELSE Calculated(c)]
    /\ UNCHANGED notCid

\* series.cache_invalidate(c)
CidInvalidate(c) ==
    /\ shared' = [k \in DOMAIN shared \ {class_cid(c)} |-> shared[k]]
    /\ asked' = [op |-> "cache_invalidate", cls |-> c, ret |-> NoValue]
    /\ UNCHANGED notCid

(***************************************************************************)
(* PSDAr2Calc._calculate_data (pyHRV/Cache.py)                             *)
(***************************************************************************)
\* what the local ar holds: nothing yet, the coefficients aryule fitted at an
\* order, or the 1 assumed when the fit failed
Unset == [by |-> "unset", order |-> 0]
Fitted(order) == [by |-> "aryule", order |-> order]
Assumed == [by |-> "ar = 1", order |-> 0]

\* powers = [], and the one-sided half of arma2psd(ar)
NoPowers == [empty |-> TRUE, of |-> Unset]
arma2psd(ar) == [empty |-> FALSE, of |-> ar]

\* the frame of a call, Sett.ar_2_max_order being max_order
Frame(max_order) ==
    [pc |-> "for", max_order |-> max_order, order |-> 1, ar |-> Unset,
     powers |-> NoPowers, tried |-> <<>>, exc |-> "none", ret |-> NoPowers]

\* no call is under way
ArIdle ==
    /\ frame = [Frame(0) EXCEPT !.pc = "idle"]
    /\ printed = <<>>

ArStart ==
    /\ frame \in {Frame(m) : m \in 0..MaxOrder}
    /\ printed = <<>>

\* one pass of the loop body: the fit at the next order succeeds or raises
\* AssertionError; powers is taken from ar either way
Ar2Order(fits) ==
    /\ frame.pc = "for"
    /\ frame.order <= frame.max_order
    /\ LET ar == IF fits THEN Fitted(frame.order) ELSE Assumed IN
        /\ frame' = [frame EXCEPT !.ar = ar,
                                  !.powers = arma2psd(ar),
                                  !.tried = Append(@, fits),
                                  !.order = @ + 1]
        /\ printed' = IF fits THEN printed
                      ELSE Append(printed, "Error in ar_2 psd ayrule, assumed ar=1")
    /\ UNCHANGED notAr

\* the else of the for: the loop has run out of orders (it has no break)
Ar2Else ==
    /\ frame.pc = "for"
    /\ frame.order > frame.max_order
    /\ frame' = [frame EXCEPT !.pc = "return"]
    /\ printed' = Append(printed, "Error in ar_2 psd, orders=0, empty powers")
    /\ UNCHANGED notAr

\* return bands, powers / np.max(powers), sum(powers) / len(powers)
Ar2Return ==
    /\ frame.pc = "return"
    /\ frame' = IF frame.powers.empty
                THEN [frame EXCEPT !.pc = "done", !.exc = "ValueError"]
                ELSE [frame EXCEPT !.pc = "done", !.ret = frame.powers]
    /\ UNCHANGED printed
    /\ UNCHANGED notAr

(***************************************************************************)
(* Several callers of get on one DataSeries (pyHRV/Cache.py,               *)
(* PyHRV/DataSeries.py): the steps of get interleave                       *)
(***************************************************************************)
Callers == 1..MaxCallers

\* the calculators called: each computes by itself, from the series alone
RaceCalcs == {"FFTCalc", "Histogram"}

\* calculator.cid() in self._cache
race_check(d, cls) == cid(cls) \in DOMAIN d

\* cache_get_data: the entry, or None
race_get_data(d, cls) == IF race_check(d, cls) THEN d[cid(cls)] ELSE None

\* the assignment, were the cache to hold one entry only
race_store_alone(d, cls, value) == [k \in {cid(cls)} |-> value]

\* self._cache[calculator.cid()] = value
race_store(d, cls, value) ==
    [k \in DOMAIN d \cup {cid(cls)} |-> IF k = cid(cls) THEN value ELSE d[k]]

\* a caller that has not called yet
NotCalling == [pc |-> "idle", cls |-> "None", params |-> "None", value |-> None, ret |-> None]

RaceStart ==
    /\ racing = <<>>
    /\ callers = [c \in Callers |-> NotCalling]
    /\ computed = [cls \in RaceCalcs |-> 0]

\* caller c moves on
Moves(c, to) ==
    /\ callers' = [callers EXCEPT ![c] = to]
    /\ UNCHANGED notRace

\* caller c enters cls.get(S, params, use_cache=True)
RaceCall(c, cls, params) ==
    /\ callers[c].pc = "idle"
    /\ Moves(c, [callers[c] EXCEPT !.pc = "check", !.cls = cls, !.params = params])
    /\ UNCHANGED <<racing, computed>>

\* if not data.cache_check(cls)
RaceCheck(c) ==
    /\ callers[c].pc = "check"
    /\ Moves(c, [callers[c] EXCEPT
                    !.pc = IF race_check(racing, callers[c].cls) THEN "read" ELSE "compute"])
    /\ UNCHANGED <<racing, computed>>

\* calculator.get(self, params, use_cache=False), the right side of the assignment
RaceCompute(c) ==
    /\ callers[c].pc = "compute"
    /\ LET cls == callers[c].cls IN
        /\ computed' = [computed EXCEPT ![cls] = @ + 1]
        /\ Moves(c, [callers[c] EXCEPT
                        !.pc = "store",
                        !.value = [by |-> cls, of |-> "S", with |-> callers[c].params,
                                   obj |-> computed[cls] + 1]])
    /\ UNCHANGED racing

\* self._cache[calculator.cid()] = ...
RaceStore(c) ==
    /\ callers[c].pc = "store"
    /\ racing' = race_store(racing, callers[c].cls, callers[c].value)
    /\ Moves(c, [callers[c] EXCEPT !.pc = "stored"])
    /\ UNCHANGED computed

\* return self._cache[calculator.cid()], which get does not use
RaceStored(c) ==
    /\ callers[c].pc = "stored"
    /\ Moves(c, [callers[c] EXCEPT
                    !.pc = IF race_check(racing, callers[c].cls) THEN "read" ELSE "KeyError"])
    /\ UNCHANGED <<racing, computed>>

\* return data.cache_get_data(cls)
RaceRead(c) ==
    /\ callers[c].pc = "read"
    /\ Moves(c, [callers[c] EXCEPT
                    !.pc = "done", !.ret = race_get_data(racing, callers[c].cls)])
    /\ UNCHANGED <<racing, computed>>

(***************************************************************************)
(* The specifications                                                      *)
(***************************************************************************)
\* the generators: each class, built with params its constructor accepts, then
\* called with a signal or left without one
Generators ==
    {Generator(cls, p, sig) :
        cls \in {"LengthSegments", "TimeSegments"}, p \in StepParams,
        sig \in Signals \cup {NoSignal}}
    \cup {Generator("LengthSegments", [step |-> EndToEnd.step, width |-> EndToEnd.step],
                    EndToEndSignal)}
    \cup {Generator("ExistingSegments", [segments |-> AsSegments(l)], sig) :
            l \in SegmentLists, sig \in Signals \cup {NoSignal}}
    \cup {Generator("FromEventsSegments", [events |-> ev], sig) :
            ev \in EventSignals, sig \in Signals \cup {NoSignal}}
    \cup {Generator("FromEventsSegments",
                    [events |-> ev, include_baseline_name |-> "baseline"], sig) :
            ev \in EventSignals, sig \in Signals \cup {NoSignal}}

NoRun == [done |-> FALSE, segs |-> <<>>, rerun |-> FALSE]

SegStart ==
    /\ self \in Generators
    /\ out = [op |-> "new", result |-> "ok", seg |-> NoSeg, afterStop |-> FALSE]
    /\ stopped = FALSE
    /\ run = <<>>
    /\ firstRun = NoRun
    /\ calls = 0

\* no generator is run with the cache engine, and no cache with the generators
SegIdle ==
    /\ self = Generator("LengthSegments", [step |-> EndToEnd.step], NoSignal)
    /\ out = [op |-> "new", result |-> "ok", seg |-> NoSeg, afterStop |-> FALSE]
    /\ stopped = FALSE
    /\ run = <<>>
    /\ firstRun = NoRun
    /\ calls = 0

InitCache == CacheStart /\ SegIdle /\ SigStart /\ CidStart /\ ArIdle /\ RaceStart

NextCache ==
    \/ \E data \in Data, cls \in Calcs, params \in Params, use_cache \in BOOLEAN :
            Get(data, cls, params, use_cache)
    \/ \E data \in DataSeriesObjs : CacheClear(data)
    \/ \E data \in DataSeriesObjs, calculator \in Calcs : CacheInvalidate(data, calculator)

SpecCache == InitCache /\ [][NextCache]_vars

InitSeg == SegStart /\ CacheStart /\ SigStart /\ CidStart /\ ArIdle /\ RaceStart

NextSeg ==
    \/ LengthSegments_init_segmentation
    \/ LengthSegments_next_segment
    \/ TimeSegments_init_segmentation
    \/ TimeSegments_next_segment
    \/ ExistingSegments_init_segmentation
    \/ ExistingSegments_next_segment
    \/ FromEventsSegments_init_segmentation
    \/ FromEventsSegments_next_segment

SpecSeg == InitSeg /\ [][NextSeg]_vars

InitSignal == SigStart /\ CacheStart /\ SegIdle /\ CidStart /\ ArIdle /\ RaceStart

NextSignal ==
    \/ NewEvenly
    \/ NewUnevenly
    \/ Resample
    \/ EvenlySegmentTime
    \/ EvenlySegmentIdx
    \/ UnevenlySegmentTime
    \/ UnevenlySegmentIdx

SpecSignal == InitSignal /\ [][NextSignal]_vars

InitAr == ArStart /\ CacheStart /\ SegIdle /\ SigStart /\ CidStart /\ RaceStart

NextAr ==
    \/ \E fits \in BOOLEAN : Ar2Order(fits)
    \/ Ar2Else
    \/ Ar2Return

SpecAr == InitAr /\ [][NextAr]_vars

InitRace == RaceStart /\ CacheStart /\ SegIdle /\ SigStart /\ CidStart /\ ArIdle

NextRace ==
    \/ \E c \in Callers, cls \in RaceCalcs, params \in Params : RaceCall(c, cls, params)
    \/ \E c \in Callers : RaceCheck(c)
    \/ \E c \in Callers : RaceCompute(c)
    \/ \E c \in Callers : RaceStore(c)
    \/ \E c \in Callers : RaceStored(c)
    \/ \E c \in Callers : RaceRead(c)

SpecRace == InitRace /\ [][NextRace]_vars

InitCid == CidStart /\ CacheStart /\ SegIdle /\ SigStart /\ ArIdle /\ RaceStart

NextCid ==
    \/ \E c \in CalcClasses : CidPreCalc(c)
    \/ \E c \in CalcClasses : CidGet(c)
    \/ \E c \in CalcClasses : CidInvalidate(c)

SpecCid == InitCid /\ [][NextCid]_vars

(***************************************************************************)
(* Properties of the cached calculator engine                              *)
(***************************************************************************)
\* how often cls._calculate_data ran on data during the last call
Runs(data, cls) == Cardinality({i \in 1..Len(last.ran) : last.ran[i] = <<data, cls>>})

CachedGet == last.op = "get" /\ last.use_cache /\ isinstance(last.data)

\* the result objects a cache holds
Objs(d) == {cache[d][k].obj : k \in DOMAIN cache[d]}

\* C1: in a run of cls.get(data, p, use_cache=True) calls on a DataSeries with no
\* cache_clear / cache_invalidate of the entry in between, a concrete calculator's
\* _calculate_data runs once in the first call and in no later one.
C1_AtMostOnce ==
    (CachedGet /\ last.cls \in Concrete) =>
        /\ Runs(last.data, last.cls) = (IF last.again THEN 0 ELSE 1)
        /\ last.exc = "none"
        /\ cache_check(Machine, last.data, last.cls)

C1_Witness ==
    /\ CachedGet /\ last.cls \in Concrete /\ last.again
    /\ Runs(last.data, last.cls) = 0
    /\ last.ret.by = last.cls

\* C2: a get with use_cache=False leaves every cache as it was, for every
\* calculator; and a cached get on a cache that does not hold the calculator's
\* entry runs its computation.
C2_BypassPurity ==
    /\ [][(last'.op = "get" /\ ~last'.use_cache) => cache' = cache]_vars
    /\ []((CachedGet /\ last.cls \in Concrete /\ ~last.hit) => Runs(last.data, last.cls) = 1)

\* C3: an entry present in a cache is what every later cached get of that
\* calculator returns, and no get removes or replaces it: only cache_clear and
\* cache_invalidate do.
C3_EntryStable ==
    /\ [][(\E d \in DataSeriesObjs : \E k \in DOMAIN cache[d] :
                k \notin DOMAIN cache'[d] \/ cache'[d][k] # cache[d][k])
            => last'.op \in {"cache_clear", "cache_invalidate"}]_vars
    /\ [][(last'.op = "get" /\ last'.use_cache /\ isinstance(last'.data)
            /\ cache_check(Machine, last'.data, last'.cls))
            => last'.ret = cache[last'.data][cid(last'.cls)]]_vars

C3_Witness ==
    /\ CachedGet /\ last.hit
    /\ last.ret = cache[last.data][cid(last.cls)]
    /\ last.ret.obj < nextObj
    /\ \E d \in DataSeriesObjs : Cardinality(DOMAIN cache[d]) = 2

\* C4: a get on one DataSeries never adds to, changes or returns from the cache of
\* another, even one holding equal numbers: a cached get on a DataSeries whose
\* cache lacks the entry computes it, whatever the other caches hold.
C4_Isolation ==
    /\ [][last'.op = "get" =>
            \A d \in DataSeriesObjs \ {last'.data} : cache'[d] = cache[d]]_vars
    /\ [](\A d1, d2 \in DataSeriesObjs : d1 # d2 => Objs(d1) \cap Objs(d2) = {})
    /\ []((last.op = "get" /\ last.exc = "none") =>
            \A d \in DataSeriesObjs \ {last.data} : last.ret.obj \notin Objs(d))
    /\ []((CachedGet /\ last.cls \in Concrete /\ ~last.hit) =>
            Runs(last.data, last.cls) = 1 /\ last.ret.of = series[last.data])

C4_Witness ==
    /\ CachedGet /\ last.cls = "Histogram" /\ ~last.hit /\ last.data = "S2"
    /\ cache_check(Machine, "S1", "Histogram")
    /\ cache["S1"][cid("Histogram")].with = last.ret.with
    /\ cache["S1"][cid("Histogram")].obj < last.ret.obj
    /\ series["S1"] = series["S2"]

\* C5: get on the abstract calculator fails with NotImplementedError, with and
\* without use_cache, and leaves the cache as it was, with no entry under the
\* abstract calculator's key.
C5_AbstractFails ==
    /\ [][(last'.op = "get" /\ last'.cls = Base) =>
            last'.exc = "NotImplementedError" /\ cache' = cache]_vars
    /\ [](\A d \in DataSeriesObjs : ~cache_check(Machine, d, Base))

C5_Witness ==
    /\ CachedGet /\ last.cls = Base /\ last.exc = "NotImplementedError"
    /\ cache[last.data] # <<>>

(***************************************************************************)
(* Properties of the segment generators                                    *)
(***************************************************************************)
IsPrefix(a, b) == Len(a) <= Len(b) /\ \A k \in 1..Len(a) : a[k] = b[k]

\* C6: next_segment of no generator, with a signal or without, returns a
\* segment with begin = end.
C6_NeverEmpty ==
    (out.op = "next_segment" /\ out.result = "segment" /\ out.seg.isSegment)
        => out.seg.begin # out.seg.end

\* C7: once next_segment has raised StopIteration, every later next_segment
\* without an init_segmentation in between raises it too.
C7_ExhaustionTerminal ==
    (out.op = "next_segment" /\ out.afterStop) => out.result = "StopIteration"

\* C8: after init_segmentation, called mid-run or after exhaustion, the
\* generator yields the segments of the first full run again, in order, and is
\* exhausted after the last of them.
C8_Restartable ==
    (firstRun.done /\ firstRun.rerun) =>
        /\ IsPrefix(run, firstRun.segs)
        /\ stopped => run = firstRun.segs

C8_Witness ==
    /\ firstRun.done /\ firstRun.rerun /\ stopped
    /\ Len(run) >= 2
    /\ run = firstRun.segs
    /\ run[1] # run[2]

\* C9: LengthSegments with width = step = S and start 0 on a signal whose
\* length L is a multiple of S yields [0, S), [S, 2S), ... : L / S segments, and
\* then raises StopIteration.
C9_EvenCut ==
    IF self.cls = "LengthSegments" /\ self.started
    THEN LET S == self.params.step
             L == len(self.signal)
         IN  (/\ S > 0
              /\ L % S = 0
              /\ ("width" \in DOMAIN self.params => self.params.width \in {0, S})
              /\ ("start" \in DOMAIN self.params => self.params.start = 0))
             => /\ Len(run) <= L \div S
                /\ \A k \in 1..Len(run) :
                        run[k].begin = (k - 1) * S /\ run[k].end = k * S
                /\ stopped => Len(run) = L \div S
    ELSE TRUE

C9_Witness ==
    /\ self.cls = "LengthSegments"
    /\ self.signal = EndToEndSignal
    /\ self.params = [step |-> 64, width |-> 64]
    /\ stopped
    /\ run = <<Segment(0, 64, "", "self._signal"), Segment(64, 128, "", "self._signal"),
               Segment(128, 192, "", "self._signal"), Segment(192, 256, "", "self._signal")>>

\* C10: next_segment of a TimeSegments or FromEventsSegments that has no signal
\* fails with an error: it neither returns a segment nor raises StopIteration.
C10_UnboundIsError ==
    (out.op = "next_segment" /\ ~self.signal.bound
        /\ self.cls \in {"TimeSegments", "FromEventsSegments"})
        => out.result \notin {"segment", "StopIteration"}

(***************************************************************************)
(* Properties of the signal classes                                        *)
(***************************************************************************)
\* the call made last was UnevenlySignal(...) with x_values of the given type
UnevenlyCalled(ty) == res.op = "UnevenlySignal" /\ res.args.x_type = ty

\* some consecutive pair of the x_values handed in is equal or decreasing
Unordered ==
    LET x == res.args.x_values IN
    \E i \in 1..(Len(x) - 1) :
        IF res.args.x_type = "indices" THEN x[i] >= x[i + 1] ELSE Le(x[i + 1], x[i])

\* C11: a call UnevenlySignal(..., x_values, x_type), x_type 'indices' or
\* 'instants', whose x_values hold a consecutive pair that is equal or
\* decreasing raises AssertionError and makes no signal.
C11_MonotonicityEnforced ==
    (res.op = "UnevenlySignal" /\ Unordered) =>
        /\ res.exc = "AssertionError"
        /\ res.ret = NoSig
        /\ subject = NoSig

\* three indices with three values and a positive frequency, only the last
\* pair equal: refused
C11_Witness ==
    /\ UnevenlyCalled("indices")
    /\ res.args.x_values = <<0, 1, 1>>
    /\ Len(res.args.values) = 3
    /\ res.args.sampling_freq > 0
    /\ res.exc = "AssertionError"
    /\ subject = NoSig

\* the stored sample indices of an UnevenlySignal are as many as its values and
\* strictly increasing
IndicesInOrder(s) ==
    s.cls = "UnevenlySignal" =>
        /\ Len(s.x_indices) = Len(s.values)
        /\ \A i \in 1..(Len(s.x_indices) - 1) : s.x_indices[i] < s.x_indices[i + 1]

\* C12: every UnevenlySignal that was constructed, from x_type 'indices' or from
\* x_type 'instants', holds stored sample indices (get_indices) without an equal
\* or decreasing neighbouring pair, as many as it has values.
C12_StoredIndicesStrict == IndicesInOrder(subject) /\ IndicesInOrder(res.ret)

\* a constructor was called with arguments the claim names as refused: a
\* sampling frequency that is not positive, x_values not as many as the values,
\* or a start_time given that is later than the first instant
Refused ==
    \/ /\ res.op \in {"EvenlySignal", "UnevenlySignal"}
       /\ res.args.sampling_freq <= 0
    \/ /\ res.op = "UnevenlySignal"
       /\ Len(res.args.x_values) # Len(res.args.values)
    \/ /\ UnevenlyCalled("instants")
       /\ "start_time" \in DOMAIN res.args
       /\ Len(res.args.x_values) > 0
       /\ Lt(res.args.x_values[1], res.args.start_time)

\* C13: a constructor called with a sampling frequency that is zero or negative,
\* with x_values whose length differs from that of the values, or with a
\* start_time later than the first instant raises AssertionError and makes no
\* object; and every signal that exists has a sampling frequency above zero.
C13_FailFast ==
    /\ Refused => (res.exc = "AssertionError" /\ res.ret = NoSig /\ subject = NoSig)
    /\ subject # NoSig => subject.sampling_freq > 0
    /\ res.ret.id # 0 => res.ret.sampling_freq > 0

\* the call made last was resample(fout) in its decimation branch: fout below
\* the signal's frequency fs, and fs / fout a whole number
Decimated ==
    /\ res.op = "resample"
    /\ res.args.fout < subject.sampling_freq
    /\ subject.sampling_freq % res.args.fout = 0

\* C14: resample(fout) of an EvenlySignal of L samples at fs, with fout < fs and
\* r = fs / fout a whole number, returns an EvenlySignal holding the input's
\* samples 0, r, 2r, ..., ceil(L / r) of them, at sampling frequency fout, with
\* the input's start time and nature.
C14_Decimation ==
    Decimated =>
        LET r == subject.sampling_freq \div res.args.fout
            L == Len(subject.values)
            n == IF L % r = 0 THEN L \div r ELSE L \div r + 1
        IN  /\ res.exc = "none"
            /\ res.ret.cls = "EvenlySignal"
            /\ Len(res.ret.values) = n
            /\ \A k \in 1..n : res.ret.values[k] = subject.values[(k - 1) * r + 1]
            /\ res.ret.sampling_freq = res.args.fout
            /\ Eq(res.ret.start_time, subject.start_time)
            /\ res.ret.signal_nature = subject.signal_nature

\* three samples at 2 Hz brought to 1 Hz: the first and the third are kept
C14_Witness ==
    /\ Decimated
    /\ subject.values = <<1, 0, 1>>
    /\ subject.sampling_freq = 2 /\ res.args.fout = 1
    /\ res.ret.values = <<1, 1>>
    /\ res.ret.sampling_freq = 1

\* the call made last was segment_time(t_start, t_stop) on a signal that has
\* samples, with t_start after the signal's end time or t_stop before its start
\* time
OutsideInTime ==
    /\ res.op = "segment_time"
    /\ Len(subject.values) > 0
    /\ \/ Lt(get_end_time(subject), res.args.t_start)
       \/ "t_stop" \in DOMAIN res.args /\ Lt(res.args.t_stop, subject.start_time)

OutsideInIndex ==
    /\ res.op = "segment_idx"
    /\ Len(subject.values) > 0
    /\ IF subject.cls = "EvenlySignal"
       THEN res.args.idx_start >= Len(subject.values)
       ELSE res.args.idx_start > subject.x_indices[Len(subject.x_indices)]

\* C16: segment_idx(idx_start, idx_stop) of an EvenlySignal or an UnevenlySignal
\* with an index range outside the signal raises nothing and returns the signal
\* it was called on.
C16_DegradedIndex ==
    OutsideInIndex =>
        /\ res.exc = "none"
        /\ res.ret.id = subject.id

\* the call made last was segment_time(t_start, t_stop) on an UnevenlySignal,
\* with an interval (t_stop the signal's end time when left out) that is not
\* empty and overlaps the signal's range
UnevenlyOverlap ==
    /\ res.op = "segment_time"
    /\ subject.cls = "UnevenlySignal"
    /\ Len(subject.values) > 0
    /\ LET t_stop == Stop(res.args, "t_stop", get_end_time(subject)) IN
        /\ Le(res.args.t_start, t_stop)
        /\ Le(res.args.t_start, get_end_time(subject))
        /\ Le(subject.start_time, t_stop)

\* C17: segment_time of an UnevenlySignal with an interval overlapping the
\* signal's range raises nothing and returns a new UnevenlySignal holding
\* exactly the samples whose times lie in the interval, at their original times.
C17_UnevenPortion ==
    UnevenlyOverlap =>
        LET t_stop == Stop(res.args, "t_stop", get_end_time(subject))
            times == Unevenly_get_times(subject)
            inside == SortedSeq({k \in 1..Len(times) :
                            Le(res.args.t_start, times[k]) /\ Le(times[k], t_stop)})
        IN  /\ res.exc = "none"
            /\ res.ret.cls = "UnevenlySignal"
            /\ res.ret.id # subject.id
            /\ Len(res.ret.values) = Len(inside)
            /\ \A j \in 1..Len(inside) :
                    /\ res.ret.values[j] = subject.values[inside[j]]
                    /\ Eq(Unevenly_get_times(res.ret)[j], times[inside[j]])

\* the call made last was segment_time(t_start), t_stop left out, on an
\* EvenlySignal that has samples, t_start not after its end time
EvenlyToTheEnd ==
    /\ res.op = "segment_time"
    /\ subject.cls = "EvenlySignal"
    /\ Len(subject.values) > 0
    /\ "t_stop" \notin DOMAIN res.args
    /\ Le(res.args.t_start, get_end_time(subject))

\* C18: segment_time(t_start) of an EvenlySignal, t_stop left out, selects up to
\* the end of the signal: the portion holds every sample whose time is at or
\* after t_start, the last sample among them, and all L samples when t_start is
\* the start time.
C18_ToTheEnd ==
    EvenlyToTheEnd =>
        LET times == Evenly_get_times(subject)
            inside == SortedSeq({k \in 1..Len(times) : Le(res.args.t_start, times[k])})
        IN  /\ res.exc = "none"
            /\ Len(res.ret.values) = Len(inside)
            /\ \A j \in 1..Len(inside) : res.ret.values[j] = subject.values[inside[j]]

(***************************************************************************)
(* Properties of the cache keys                                            *)
(***************************************************************************)
\* C19: cache keys never collide: cid() is a function of the calculator class
\* under which classes that compute different results have different keys, so a
\* cached get of one calculator never returns a value that another calculator,
\* computing something else, has stored.
C19_KeysDoNotCollide ==
    /\ \A k \in DOMAIN shared :
            (asked.op # "new" /\ Computation(shared[k].by) # Computation(asked.cls))
                => k # class_cid(asked.cls)
    /\ asked.op = "get" => asked.ret.result = Computation(asked.cls)

(***************************************************************************)
(* Properties of resampling by interpolation                               *)
(***************************************************************************)
\* the call made last was resample(fout) in its interpolation branch, on a
\* signal that has a last sample to duplicate
Interpolated ==
    /\ res.op = "resample"
    /\ ~(res.args.fout < subject.sampling_freq
            /\ subject.sampling_freq % res.args.fout = 0)
    /\ Len(subject.values) > 0

C28_KeyedByCalculatorOnly ==
    [][(/\ last'.op = "get" /\ last'.use_cache /\ isinstance(last'.data)
        /\ cache_check(Machine, last'.data, last'.cls))
        => /\ last'.ran = <<>>
           /\ last'.exc = "none"
           /\ cache' = cache
           /\ last'.ret = cache[last'.data][cid(last'.cls)]]_vars

\* Histogram.get(S, "p1") answered with the entry computed for params None
C28_Witness ==
    /\ CachedGet /\ last.hit /\ last.cls = "Histogram"
    /\ last.params = "p1"
    /\ last.ret.with = "None"
    /\ last.ret.by = "Histogram"
    /\ last.ran = <<>>

(***************************************************************************)
(* Further properties of the segment generators                            *)
(***************************************************************************)
\* a FromEventsSegments bound to a signal, its segmentation begun
FromEvents == self.cls = "FromEventsSegments" /\ self.started /\ self.signal.bound

\* the instants of the samples of the bound signal that lie in seg
TimesIn(seg) ==
    {get_times(self.signal, j) : j \in {j \in seg.begin..(seg.end - 1) : j < len(self.signal)}}

\* C22: with include_baseline_name given, the first segment a FromEventsSegments
\* yields is labelled with that name and holds the samples before the first
\* event and no others; without it, no yielded segment holds a sample before
\* the first event.
C22_Baseline ==
    (FromEvents /\ Len(run) >= 1) =>
        IF "include_baseline_name" \in DOMAIN self.params
        THEN /\ run[1].label = self.params.include_baseline_name
             /\ run[1].begin = 0
             /\ \A t \in TimesIn(run[1]) : t < self.events.times[1]
        ELSE \A k \in 1..Len(run) : \A t \in TimesIn(run[k]) : t >= self.events.times[1]

\* C23: the k-th segment a FromEventsSegments (without baseline) yields has the
\* label of the k-th event and holds only samples from the k-th event's instant
\* up to the next event's instant; none of its samples is earlier than the
\* event that labels it.
C23_EventSegments ==
    (FromEvents /\ "include_baseline_name" \notin DOMAIN self.params) =>
        \A k \in 1..Len(run) :
            /\ k <= Len(self.events.times)
            /\ run[k].label = self.events.values[k]
            /\ \A t \in TimesIn(run[k]) :
                /\ t >= self.events.times[k]
                /\ k < Len(self.events.times) => t <= self.events.times[k + 1]


\* C24: iteration ends: a next_segment that yields a segment leaves the
\* generator in another state than it found it (a generator is deterministic in
\* its state, so a yield that changes nothing repeats for ever), and the cursor
\* of a TimeSegments with step >= 0 is strictly greater after every yield.
C24_Terminates ==
    [][(calls' = calls + 1 /\ out'.op = "next_segment" /\ out'.result = "segment")
        => /\ self' # self
           /\ (self.cls = "TimeSegments" /\ self.step >= 0) => self'.i > self.i]_vars


\* a LengthSegments bound to a signal, its segmentation begun
ByLength == self.cls = "LengthSegments" /\ self.started /\ self.signal.bound

\* the width and the start offset LengthSegments takes from its params
WidthOf(p) == IF "width" \notin DOMAIN p \/ p.width = 0 THEN p.step ELSE p.width
StartOf(p) == IF "start" \in DOMAIN p THEN p.start ELSE 0

\* two half-open ranges of indices share an index
Overlap(a, b) == a.begin < b.end /\ b.begin < a.end

\* C25: with step S, width W (S when 'width' is absent or 0) and start offset o
\* (0 when 'start' is absent), the k-th segment LengthSegments yields (k = 0,
\* 1, ...) is [o + k*S, o + k*S + W); two consecutive segments overlap exactly
\* when W > S.
C25_Stepping ==
    ByLength =>
        LET S == self.params.step
            W == WidthOf(self.params)
            o == StartOf(self.params)
        IN  /\ \A k \in 1..Len(run) :
                /\ run[k].begin = o + (k - 1) * S
                /\ run[k].end = o + (k - 1) * S + W
            /\ \A k \in 1..(Len(run) - 1) : Overlap(run[k], run[k + 1]) <=> W > S

\* step 1, width 2 from offset 1: [1, 3) and [2, 4) overlap
C25_Witness ==
    /\ ByLength /\ ~stopped
    /\ self.params = [step |-> 1, width |-> 2, start |-> 1]
    /\ Len(run) = 2
    /\ run[1].begin = 1 /\ run[1].end = 3
    /\ run[2].begin = 2 /\ run[2].end = 4
    /\ Overlap(run[1], run[2])


\* an ExistingSegments bound to a signal in which every listed segment has
\* samples, its segmentation begun
ListedNonEmpty ==
    /\ self.cls = "ExistingSegments" /\ self.started /\ self.signal.bound
    /\ \A k \in 1..Len(self.params.segments) :
            ~is_empty(self.params.segments[k], self.signal)

\* C26: ExistingSegments bound to a signal and given a list of N segments, none
\* of them empty, yields N segments in the order of the list, each with begin,
\* end and label of the list's element and the bound signal as its signal, and
\* then raises StopIteration; the list itself is never changed.
C26_ListInOrder ==
    [][ListedNonEmpty' =>
        LET given == self'.params.segments IN
        /\ self'.wins = given
        /\ self'.params = self.params
        /\ Len(run') <= Len(given)
        /\ \A k \in 1..Len(run') :
                run'[k] = Segment(given[k].begin, given[k].end, given[k].label, "self._signal")
        /\ stopped' => Len(run') = Len(given)
        /\ (out'.op = "next_segment" /\ ~stopped /\ Len(run) = Len(given))
                => out'.result = "StopIteration"]_vars

\* two listed segments of another signal, handed out for the bound one and
\* followed by StopIteration
C26_Witness ==
    /\ ListedNonEmpty /\ stopped
    /\ Len(self.params.segments) = 2
    /\ Len(run) = 2
    /\ \A k \in 1..2 : /\ self.params.segments[k].signal = "other"
                       /\ run[k].signal = "self._signal"
                       /\ run[k].begin = self.params.segments[k].begin
                       /\ run[k].label = self.params.segments[k].label
    /\ run[1] # run[2]


\* a TimeSegments bound to a signal, its segmentation begun, step >= 0
ByTime ==
    /\ self.cls = "TimeSegments" /\ self.started /\ self.signal.bound
    /\ self.params.step >= 0

\* the first sample of the bound signal later than d after sample b, or the
\* signal's length when there is none
FirstAfter(b, d) ==
    LET later == {j \in 0..(len(self.signal) - 1) :
                    get_times(self.signal, j) > get_times(self.signal, b) + d}
    IN  IF later = {} THEN len(self.signal)
        ELSE CHOOSE j \in later : \A j2 \in later : j <= j2

\* C30: every segment [b, e) a TimeSegments with step >= 0 yields has
\* b < e <= L; the segment after it begins at the first sample later than
\* time(b) + step; with width = step each segment ends where the next begins,
\* and a finished run covers the samples from the start cursor to L.
C30_TimeCut ==
    ByTime =>
        LET L == len(self.signal)
            S == self.params.step
            W == WidthOf(self.params)
            n == Len(run)
        IN  /\ \A k \in 1..n : run[k].begin < run[k].end /\ run[k].end <= L
            /\ \A k \in 1..(n - 1) : run[k + 1].begin = FirstAfter(run[k].begin, S)
            /\ W = S =>
                /\ \A k \in 1..(n - 1) : run[k].end = run[k + 1].begin
                /\ (stopped /\ n > 0) =>
                        run[1].begin = StartOf(self.params) /\ run[n].end = L
                /\ (stopped /\ n = 0) => StartOf(self.params) >= L

\* three samples at instants 0, 1 and 3 cut with step = width = 1: [0, 2), [2, 3)
C30_Witness ==
    /\ ByTime /\ stopped
    /\ self.signal.times = <<0, 1, 3>>
    /\ self.params = [step |-> 1]
    /\ Len(run) = 2
    /\ run[1].begin = 0 /\ run[1].end = 2
    /\ run[2].begin = 2 /\ run[2].end = 3


(***************************************************************************)
(* Further properties of the signal classes                                *)
(***************************************************************************)
\* the samples of the subject whose stored index lies in [idx_start, idx_stop)
KeptByIndex ==
    LET idx_stop == Stop(res.args, "idx_stop", Len(subject.values)) IN
    {k \in 1..Len(subject.x_indices) :
        res.args.idx_start <= subject.x_indices[k] /\ subject.x_indices[k] < idx_stop}

\* the call made last was segment_idx on an UnevenlySignal, with a range of
\* indices that holds a sample
IndexInRange ==
    /\ res.op = "segment_idx"
    /\ subject.cls = "UnevenlySignal"
    /\ KeptByIndex # {}

\* C29: segment_idx(idx_start, idx_stop) of an UnevenlySignal, the range in the
\* signal, returns a signal holding exactly the samples whose stored index i
\* has idx_start <= i < idx_stop, its stored indices rebased so that the first
\* is 0, every sample at the time it has in the original.
C29_IndexPortion ==
    IndexInRange =>
        LET kept == SortedSeq(KeptByIndex)
            times == Unevenly_get_times(subject)
        IN  /\ res.exc = "none"
            /\ res.ret.cls = "UnevenlySignal"
            /\ Len(res.ret.values) = Len(kept)
            /\ res.ret.x_indices[1] = 0
            /\ \A j \in 1..Len(kept) :
                    /\ res.ret.values[j] = subject.values[kept[j]]
                    /\ res.ret.x_indices[j] = subject.x_indices[kept[j]]
                                                - subject.x_indices[kept[1]]
                    /\ Eq(Unevenly_get_times(res.ret)[j], times[kept[j]])


(***************************************************************************)
(* Properties of PSDAr2Calc                                                *)
(***************************************************************************)
\* the orders at which the fit succeeded
Succeeded == {k \in 1..Len(frame.tried) : frame.tried[k]}

\* C27: PSDAr2Calc tries the orders 1..ar_2_max_order, all of them, and returns
\* the spectrum of the last order at which the fit succeeded, whatever failed
\* before or after it; it prints a diagnostic only when a fit failed or no
\* order was tried.
C27_LastGoodOrder ==
    frame.pc = "done" =>
        /\ Len(frame.tried) = frame.max_order
        /\ Succeeded # {} =>
                /\ frame.exc = "none"
                /\ frame.ret = arma2psd(Fitted(Highest(Succeeded)))
        /\ printed # <<>> =>
                (frame.max_order = 0 \/ \E k \in 1..Len(frame.tried) : ~frame.tried[k])


(***************************************************************************)
(* Properties of get under interleaving                                    *)
(***************************************************************************)
\* the values _calculate_data of cls has computed so far are numbered from 1
ComputedBy(cls, value) ==
    value.by = cls /\ value.obj \in 1..computed[cls]

\* C21: get is check, compute, store, one step after the other: when the calls
\* of several callers interleave, the computation may run more than once, and
\* still every caller that returns, returns a value its calculator computed,
\* and the cache holds one entry of the calculator, a computed value too, which
\* a caller that found the entry in place returns.
C21_CheckComputeStore ==
    \A c \in Callers :
        LET cls == callers[c].cls IN
        /\ callers[c].pc # "KeyError"
        /\ callers[c].pc \in {"stored", "read", "done"} =>
                /\ race_check(racing, cls)
                /\ ComputedBy(cls, racing[cid(cls)])
        /\ callers[c].pc = "done" =>
                /\ ComputedBy(cls, callers[c].ret)
                /\ computed[cls] >= 1

\* two callers of Histogram.get(S, None) both missed, both computed, and both
\* returned; the cache holds the value stored last
C21_Witness ==
    /\ \A c \in {1, 2} : /\ callers[c].pc = "done"
                         /\ callers[c].cls = "Histogram"
                         /\ callers[c].params = "None"
                         /\ ComputedBy("Histogram", callers[c].ret)
    /\ computed["Histogram"] = 2
    /\ DOMAIN racing = {cid("Histogram")}
    /\ callers[1].ret.obj = 1
    /\ callers[2].ret.obj = 2
    /\ racing[cid("Histogram")].obj = 2

====
